---- MODULE Spec2Model ----
(***************************************************************************)
(* Model of the RSVP intake form of streamlit_app.py: the submit handler   *)
(* (debounce, validation, photo, phone normalisation, duplicate check,     *)
(* CSV append, WhatsApp confirmation) run by concurrent browser sessions   *)
(* against one CSV file and one upload directory, and the pure helpers     *)
(* calc_age and send_confirmation.                                         *)
(***************************************************************************)
EXTENDS Integers, Sequences, FiniteSets, TLC

\* ------------------------------------------------------------------ bounds
\* The clock runs over 0..MaxTime (seconds).
MaxTime == 3
\* The sessions make this many submit attempts in all.
MaxRuns == 2

\* Browser sessions; each runs its script in a thread of its own.
Sessions == {"s1", "s2"}

\* ------------------------------------------------------------------ dates
NoDate == <<>>

IsLeap(y) == (y % 4 = 0 /\ y % 100 # 0) \/ y % 400 = 0

DaysIn(y, m) ==
    IF m = 2 THEN (IF IsLeap(y) THEN 29 ELSE 28)
    ELSE IF m \in {4, 6, 9, 11} THEN 30 ELSE 31

\* Python's tuple comparison (a.month, a.day) < (b.month, b.day).
MonthDayLess(a, b) == a[2] < b[2] \/ (a[2] = b[2] /\ a[3] < b[3])

Max(a, b) == IF a >= b THEN a ELSE b

\* calc_age with <= for <: today's birthday is not counted.
calc_age_strict(dob, today) ==
    Max(0, today[1] - dob[1] - (IF ~MonthDayLess(dob, today) THEN 1 ELSE 0))

calc_age(dob, today) ==
    Max(0, today[1] - dob[1] - (IF MonthDayLess(today, dob) THEN 1 ELSE 0))

\* date.today() of the pipeline runs.
TodayDate == <<2024, 5, 1>>

\* ------------------------------------------------------------------ phones
\* A raw phone string is a sequence of tokens: "+", a country code, the
\* separators " " and "-", and blocks of national digits.  N1 and N2 stand
\* for two valid Indian mobile numbers.
ValidNational == {"N1", "N2"}
Separators == {" ", "-"}
DefaultRegionCode == "91"

RawPhones ==
    { <<"+", "91", " ", "N1">>,      \* "+91 98765 43210"
      <<"N1">>,                       \* "9876543210", national format
      <<"+", "91", "-", "N2", " ">>, \* other number, trailing blank
      <<"+", "91", " ">>,            \* the form's default value "+91 ", no valid number
      <<" ">> }                       \* blank

RECURSIVE Without(_, _)
\* str.replace(c, "") for every c of drop.
Without(str, drop) ==
    IF str = <<>> THEN <<>>
    ELSE IF Head(str) \in drop THEN Without(Tail(str), drop)
    ELSE <<Head(str)>> \o Without(Tail(str), drop)

RECURSIVE LStrip(_)
LStrip(str) ==
    IF str # <<>> /\ Head(str) = " " THEN LStrip(Tail(str)) ELSE str

RECURSIVE RStrip(_)
RStrip(str) ==
    IF str # <<>> /\ str[Len(str)] = " "
    THEN RStrip(SubSeq(str, 1, Len(str) - 1)) ELSE str

\* str.strip()
Strip(str) == RStrip(LStrip(str))

\* mobile_raw.strip().replace("+", "").replace(" ", "").replace("-", "")
phone_for_name(mobile_raw) == Without(Strip(mobile_raw), {"+", " ", "-"})

\* phonenumbers.parse + is_valid_number + format_number(E164); InvalidPhone
\* stands for the exception (NumberParseException or ValueError).
InvalidPhone == <<>>
normalize_phone(raw, region) ==
    LET digits == Without(raw, Separators)
        intl == digits # <<>> /\ Head(digits) = "+"
        cc == IF intl THEN (IF Len(digits) >= 2 THEN digits[2] ELSE "")
              ELSE region
        national == IF intl THEN SubSeq(digits, 3, Len(digits)) ELSE digits
    IN IF cc = "91" /\ Len(national) = 1 /\ national[1] \in ValidNational
       THEN <<"+", cc, national[1]>>
       ELSE InvalidPhone

\* ------------------------------------------------------------------ secrets
\* PROVIDER after .lower(); "sms" stands for any unsupported value.
Providers == {"none", "cloud_api", "twilio", "sms"}

\* Which of the credentials read from st.secrets are non-empty strings.
SecretNames ==
    {"WHATSAPP_PHONE_NUMBER_ID", "WHATSAPP_ACCESS_TOKEN", "WHATSAPP_TEMPLATE_NAME",
     "TWILIO_ACCOUNT_SID", "TWILIO_AUTH_TOKEN", "TWILIO_WHATSAPP_FROM"}
AllSecrets == [SecretNames -> BOOLEAN]
\* The configurations of the pipeline runs: no provider, a provider with its
\* credentials, a provider without them, an unsupported provider.
PipelineConfigs ==
    { <<"none", [n \in SecretNames |-> FALSE]>>,
      <<"cloud_api", [n \in SecretNames |-> TRUE]>>,
      <<"twilio", [n \in SecretNames |-> FALSE]>>,
      <<"sms", [n \in SecretNames |-> TRUE]>> }

\* What the remote end does with a request: accepts it, or answers with a
\* status >= 400 / a transport error.
Remotes == {"accepted", "rejected"}

\* ------------------------------------------------------------------ senders
\* A sender's outcome: what it returned or raised, and the network calls made.
Returned(status, net) == [kind |-> "returned", status |-> status, error |-> "", net |-> net]
Raised(error, net) == [kind |-> "raised", status |-> "", error |-> error, net |-> net]

\* The Cloud API sender without the template name in its secrets check.
send_whatsapp_cloud_api_two(sec, remote) ==
    IF ~(sec["WHATSAPP_PHONE_NUMBER_ID"] /\ sec["WHATSAPP_ACCESS_TOKEN"])
    THEN Raised("Cloud API secrets missing.", 0)
    ELSE IF remote = "rejected" THEN Raised("Cloud API error", 1)
    ELSE Returned("sent", 1)

send_whatsapp_cloud_api(sec, remote) ==
    IF ~(sec["WHATSAPP_PHONE_NUMBER_ID"] /\ sec["WHATSAPP_ACCESS_TOKEN"]
         /\ sec["WHATSAPP_TEMPLATE_NAME"])
    THEN Raised("Cloud API secrets missing.", 0)
    ELSE IF remote = "rejected" THEN Raised("Cloud API error", 1)
    ELSE Returned("sent", 1)

send_whatsapp_twilio(sec, remote) ==
    IF ~(sec["TWILIO_ACCOUNT_SID"] /\ sec["TWILIO_AUTH_TOKEN"]
         /\ sec["TWILIO_WHATSAPP_FROM"])
    THEN Raised("Twilio secrets missing.", 0)
    ELSE IF remote = "rejected" THEN Raised("Twilio error", 1)
    ELSE Returned("queued", 1)

send_confirmation(provider, sec, remote) ==
    IF provider = "none" THEN Returned("skipped", 0)
    ELSE IF provider = "cloud_api" THEN send_whatsapp_cloud_api(sec, remote)
    ELSE IF provider = "twilio" THEN send_whatsapp_twilio(sec, remote)
    ELSE Raised("Unsupported PROVIDER", 0)

\* ------------------------------------------------------------------ form
NoFile == "none"
Uploads == {NoFile, "image/png"}
GoodName == <<"Asha", " ", "Rao">>
GoodAddress == <<"12 MG Road">>
GoodDob == <<1990, 5, 1>>

FormOf(dob, full_name, mobile_raw, full_address, uploaded_file) ==
    [dob |-> dob, full_name |-> full_name, mobile_raw |-> mobile_raw,
     full_address |-> full_address, uploaded_file |-> uploaded_file]

\* The forms submitted: every phone under otherwise good fields, a photo with
\* a valid and with an invalid phone, and a form for each field left empty.
Forms ==
    { FormOf(GoodDob, GoodName, p, GoodAddress, NoFile) : p \in RawPhones }
    \cup { FormOf(GoodDob, GoodName, <<"+", "91", " ", "N1">>, GoodAddress, "image/png"),
           FormOf(GoodDob, GoodName, <<"+", "91", " ">>, GoodAddress, "image/png"),
           FormOf(NoDate, GoodName, <<"N1">>, GoodAddress, "image/png"),
           FormOf(GoodDob, <<" ">>, <<"N1">>, GoodAddress, "image/png"),
           FormOf(GoodDob, GoodName, <<"N1">>, <<>>, "image/png") }

NoRSVP == [ts |-> 0, mobile_e164 |-> InvalidPhone, dob |-> NoDate, age_years |-> 0,
           photo_path |-> <<>>]
NoPath == <<>>

\* save_photo's target: uploads/<prefix><ext>, ".png" for a declared PNG and
\* ".jpg" otherwise.
PhotoExt(uploaded_file) == IF uploaded_file = "image/png" THEN ".png" ELSE ".jpg"
PhotoPath(ts, prefix, uploaded_file) ==
    <<ts>> \o prefix \o <<PhotoExt(uploaded_file)>>

\* The lock window of the debounce, in seconds.
SubmitLockSeconds == 3

\* The basic validations, in the handler's order: the first failing check's
\* message, or "ok".
Validate(dob, age_years, full_name, mobile_raw, full_address) ==
    IF dob = NoDate THEN "Please select Date of Birth."
    ELSE IF ~(0 <= age_years /\ age_years <= 120) THEN "DOB/age looks invalid."
    ELSE IF Strip(full_name) = <<>> THEN "Full Name required."
    ELSE IF Strip(mobile_raw) = <<>> THEN "Mobile Number required."
    ELSE IF Strip(full_address) = <<>> THEN "Full Address required."
    ELSE "ok"

\* ------------------------------------------------------------------ state
VARIABLES
    now,                \* the latest reading of time.time(), in whole seconds
    csvExists,          \* os.path.exists(CSV_PATH)
    rows,               \* the CSV's data rows, in file order
    photos,             \* the paths of the files in uploads/
    PROVIDER, secrets,  \* configuration
    pc,                 \* each session's place in the submit handler
    SUBMIT_LOCK_UNTIL,  \* st.session_state.SUBMIT_LOCK_UNTIL
    r,                  \* the RSVP built by the running submission
    registered,         \* what already_registered returned
    msgs,               \* the messages the run has shown, in order
    resp,               \* resp of the run: "" or a status
    \* history of the session's latest attempt
    lastPass,           \* time of the latest attempt that passed the debounce, or -1
    appended,           \* rows it appended
    dispatched,         \* its calls of send_confirmation: the phones called
    netio,              \* its network calls
    wrote,              \* photo files it wrote
    raised,             \* where its failure came from, or "none"
    readOk,             \* its duplicate check could read the CSV
    runs,               \* the attempts the session has made
    bothChecked,        \* two runs for one phone both checked before either saved
    \* calc_age and send_confirmation applied to drawn inputs
    ageIn, ageOut, sendIn, sendOut

storeVars == <<csvExists, rows, photos>>
configVars == <<PROVIDER, secrets>>
sessVars == <<pc, SUBMIT_LOCK_UNTIL, r, registered, msgs, resp>>
histVars == <<lastPass, appended, dispatched, netio, wrote, raised, readOk, runs, bothChecked>>
pureVars == <<ageIn, ageOut, sendIn, sendOut>>
vars == <<now, storeVars, configVars, sessVars, histVars, pureVars>>

NoInput == <<>>
NotComputed == <<>>
Pending == [kind |-> "pending", status |-> "", error |-> "", net |-> 0]

PipelineInit ==
    /\ now = 0
    /\ csvExists = FALSE
    /\ rows = <<>>
    /\ photos = {}
    /\ pc = [s \in Sessions |-> "idle"]
    /\ SUBMIT_LOCK_UNTIL = [s \in Sessions |-> 0]
    /\ r = [s \in Sessions |-> NoRSVP]
    /\ registered = [s \in Sessions |-> FALSE]
    /\ msgs = [s \in Sessions |-> <<>>]
    /\ resp = [s \in Sessions |-> ""]
    /\ lastPass = [s \in Sessions |-> -1]
    /\ appended = [s \in Sessions |-> 0]
    /\ dispatched = [s \in Sessions |-> <<>>]
    /\ netio = [s \in Sessions |-> 0]
    /\ wrote = [s \in Sessions |-> 0]
    /\ runs = [s \in Sessions |-> 0]
    /\ raised = [s \in Sessions |-> "none"]
    /\ readOk = [s \in Sessions |-> TRUE]
    /\ bothChecked = FALSE

Init ==
    /\ PipelineInit
    /\ \E c \in PipelineConfigs : PROVIDER = c[1] /\ secrets = c[2]
    /\ ageIn = NoInput /\ ageOut = NotComputed
    /\ sendIn = NoInput /\ sendOut = Pending

\* ------------------------------------------------------------------ helpers
Msg(level, text, detail) == [level |-> level, text |-> text, detail |-> detail]

BusyMsg == Msg("warning", "Processing...", "")
AlreadyMsg == Msg("info", "Already registered. Sending confirmation again...", "")
SavedMsg == Msg("success", "RSVP saved", "")
SavedSentMsg == Msg("success", "RSVP saved, WhatsApp confirmation sent", "")
\* The send failure without its own try: the outer except reports it.
SendFailedMsg_outer(err) == Msg("error", "Failed", err)
SendFailedMsg(err) == Msg("warning", "RSVP saved, but WhatsApp send failed", err)
FailedMsg(err) == Msg("error", "Failed", err)

\* The debounce test with <= for <.
Debounced_inclusive(t, lockUntil) == t <= lockUntil

\* The debounce test of the handler: now < SUBMIT_LOCK_UNTIL.
Debounced(t, lockUntil) == t < lockUntil

\* The lock an accepted attempt arms: now + 3.
LockAfter(t) == t + SubmitLockSeconds

\* save_photo: the files of uploads/ afterwards, the path returned and whether
\* it raised.  io: "ok"; "refused" (makedirs or open fails); "broken" (the
\* file is created and the write fails).
save_photo(files, uploaded_file, path, io) ==
    IF uploaded_file = NoFile
    THEN [files |-> files, path |-> NoPath, failed |-> FALSE, writes |-> 0]
    ELSE IF io = "refused"
    THEN [files |-> files, path |-> NoPath, failed |-> TRUE, writes |-> 0]
    ELSE IF io = "broken"
    THEN [files |-> files \cup {path}, path |-> NoPath, failed |-> TRUE, writes |-> 1]
    ELSE [files |-> files \cup {path}, path |-> path, failed |-> FALSE, writes |-> 1]

\* already_registered reading the CSV without dtype=str: the phone cells are
\* parsed as numbers and none equals the phone string.
already_registered_untyped(exists, readable, rws, phone_e164) == FALSE

\* already_registered: False when the file is absent or cannot be read,
\* otherwise whether some row's mobile_e164 cell equals the phone.
already_registered(exists, readable, rws, phone_e164) ==
    IF ~exists THEN FALSE
    ELSE IF ~readable THEN FALSE
    ELSE \E i \in 1..Len(rws) : rws[i].mobile_e164 = phone_e164

\* ensure_csv's open(path, "w") and header row: the data rows afterwards.
HeaderOnly(rws) == <<>>

\* save_rsvp's open(path, "a") and writerow: the data rows afterwards.
WithRow(rws, rec) == Append(rws, rec)

\* The success message without the test of the provider.
SuccessMsg_always(provider) == SavedSentMsg

\* The success message of line 281.
SuccessMsg(provider) == IF provider # "none" THEN SavedSentMsg ELSE SavedMsg

RECURSIVE SumOver(_, _)
SumOver(f, S) ==
    IF S = {} THEN 0
    ELSE LET x == CHOOSE y \in S : TRUE IN f[x] + SumOver(f, S \ {x})

TotalRuns == SumOver(runs, Sessions)

\* The sessions are interchangeable: the first attempt is taken to be s1's.
FirstIsS1(s) == TotalRuns = 0 => s = "s1"

\* The script run ends: its locals are gone, the page stays.
RunEnds(s) ==
    /\ pc' = [pc EXCEPT ![s] = "idle"]
    /\ r' = [r EXCEPT ![s] = NoRSVP]
    /\ registered' = [registered EXCEPT ![s] = FALSE]

\* An except that reports the error and lets the handler go on to dispatch.
Abort_swallowed(s, error, origin) ==
    /\ pc' = [pc EXCEPT ![s] = "send"]
    /\ msgs' = [msgs EXCEPT ![s] = Append(@, FailedMsg(error))]
    /\ raised' = [raised EXCEPT ![s] = origin]
    /\ UNCHANGED <<r, registered>>

\* The outer except: "Failed: <error>", and the run ends.
Abort(s, error, origin) ==
    /\ RunEnds(s)
    /\ msgs' = [msgs EXCEPT ![s] = Append(@, FailedMsg(error))]
    /\ raised' = [raised EXCEPT ![s] = origin]

\* ------------------------------------------------------------------ actions
\* What the handler computes from a form's fields alone: age_years (line 191),
\* the first failing validation (lines 241-245), phone_for_name (line 248)
\* and normalize_phone's result (line 253).
FormFacts ==
    [f \in Forms |->
        LET age_years == IF f.dob # NoDate THEN calc_age(f.dob, TodayDate) ELSE -1
        IN  [age_years |-> age_years,
             verdict |-> Validate(f.dob, age_years, f.full_name, f.mobile_raw,
                                  f.full_address),
             prefix |-> phone_for_name(f.mobile_raw),
             mobile_e164 |-> normalize_phone(Strip(f.mobile_raw), DefaultRegionCode)]]

\* Lines 232-271: the click on Submit.  The clock is read (it never runs
\* backwards) and the debounce check made; an attempt that passes it goes
\* through the validations, save_photo and normalize_phone, and the RSVP is
\* built.
Submit(s) ==
    /\ pc[s] = "idle"
    /\ TotalRuns < MaxRuns
    /\ FirstIsS1(s)
    /\ \E t \in now..MaxTime :
        /\ now' = t
        /\ IF Debounced(t, SUBMIT_LOCK_UNTIL[s])
           THEN /\ msgs' = [msgs EXCEPT ![s] = <<BusyMsg>>]
                /\ raised' = [raised EXCEPT ![s] = "none"]
                /\ wrote' = [wrote EXCEPT ![s] = 0]
                /\ r' = [r EXCEPT ![s] = NoRSVP]
                /\ UNCHANGED <<lastPass, SUBMIT_LOCK_UNTIL, photos, pc>>
           ELSE /\ lastPass' = [lastPass EXCEPT ![s] = t]
                /\ SUBMIT_LOCK_UNTIL' = [SUBMIT_LOCK_UNTIL EXCEPT ![s] = LockAfter(t)]
                /\ \E f \in Forms :
                    LET facts == FormFacts[f]
                        valid == facts.verdict = "ok"
                        path == PhotoPath(t, facts.prefix, f.uploaded_file)
                    IN  \E io \in (IF valid /\ f.uploaded_file # NoFile
                                   THEN {"ok", "refused", "broken"} ELSE {"ok"}) :
                        LET saved == IF valid
                                     THEN save_photo(photos, f.uploaded_file, path, io)
                                     ELSE save_photo(photos, NoFile, path, io)
                            built == /\ valid
                                     /\ ~saved.failed
                                     /\ facts.mobile_e164 # InvalidPhone
                        IN  /\ photos' = saved.files
                            /\ wrote' = [wrote EXCEPT ![s] = saved.writes]
                            /\ msgs' = [msgs EXCEPT ![s] =
                                   IF ~valid THEN <<Msg("error", facts.verdict, "")>>
                                   ELSE IF saved.failed THEN <<FailedMsg("OSError")>>
                                   ELSE IF facts.mobile_e164 = InvalidPhone
                                   THEN <<FailedMsg("Invalid phone number.")>>
                                   ELSE <<>>]
                            /\ raised' = [raised EXCEPT ![s] =
                                   IF ~valid THEN "validation"
                                   ELSE IF saved.failed THEN "save_photo"
                                   ELSE IF facts.mobile_e164 = InvalidPhone
                                   THEN "normalize_phone"
                                   ELSE "none"]
                            /\ r' = [r EXCEPT ![s] =
                                   IF built
                                   THEN [ts |-> t, mobile_e164 |-> facts.mobile_e164,
                                         dob |-> f.dob, age_years |-> facts.age_years,
                                         photo_path |-> saved.path]
                                   ELSE NoRSVP]
                            /\ pc' = [pc EXCEPT ![s] = IF built THEN "check" ELSE "idle"]
    /\ runs' = [runs EXCEPT ![s] = @ + 1]
    /\ resp' = [resp EXCEPT ![s] = ""]
    /\ appended' = [appended EXCEPT ![s] = 0]
    /\ dispatched' = [dispatched EXCEPT ![s] = <<>>]
    /\ netio' = [netio EXCEPT ![s] = 0]
    /\ readOk' = [readOk EXCEPT ![s] = TRUE]
    /\ bothChecked' = FALSE
    /\ UNCHANGED <<csvExists, rows, configVars, registered, pureVars>>

\* Lines 273-275: the duplicate check.
AlreadyRegistered(s) ==
    /\ pc[s] = "check"
    /\ \E readable \in BOOLEAN :
        LET found == already_registered(csvExists, readable, rows, r[s].mobile_e164)
        IN  \* a failing read that changes nothing is not told apart
            /\ ~already_registered(csvExists, TRUE, rows, r[s].mobile_e164) => readable
            /\ readOk' = [readOk EXCEPT ![s] = readable]
            /\ registered' = [registered EXCEPT ![s] = found]
            /\ msgs' = [msgs EXCEPT ![s] = IF found THEN Append(@, AlreadyMsg) ELSE @]
            /\ pc' = [pc EXCEPT ![s] = IF found THEN "send" ELSE "exists"]
            /\ bothChecked' =
                   (bothChecked \/
                    (~found /\ \E t \in Sessions \ {s} :
                        /\ pc[t] = "exists"
                        /\ r[t].mobile_e164 = r[s].mobile_e164))
    /\ UNCHANGED <<now, storeVars, configVars, SUBMIT_LOCK_UNTIL, r, resp, lastPass,
                   appended, dispatched, netio, wrote, raised, runs, pureVars>>

\* Line 49: ensure_csv's os.path.exists.
EnsureCsvExists(s) ==
    /\ pc[s] = "exists"
    /\ pc' = [pc EXCEPT ![s] = IF csvExists THEN "append" ELSE "create"]
    /\ UNCHANGED <<now, storeVars, configVars, SUBMIT_LOCK_UNTIL, r, registered, msgs,
                   resp, histVars, pureVars>>

\* Lines 50-55: ensure_csv's open(path, "w") and header.
EnsureCsvCreate(s) ==
    /\ pc[s] = "create"
    /\ \E io \in {"ok", "refused"} :
        IF io = "ok"
        THEN /\ csvExists' = TRUE
             /\ rows' = HeaderOnly(rows)
             /\ pc' = [pc EXCEPT ![s] = "append"]
             /\ UNCHANGED <<r, registered, msgs, raised>>
        ELSE /\ Abort(s, "OSError", "save_rsvp")
             /\ UNCHANGED <<csvExists, rows>>
    /\ UNCHANGED <<now, photos, configVars, SUBMIT_LOCK_UNTIL, resp, lastPass, appended,
                   dispatched, netio, wrote, readOk, runs, bothChecked, pureVars>>

\* Lines 59-64: save_rsvp's open(path, "a") and writerow.
SaveRow(s) ==
    /\ pc[s] = "append"
    /\ \E io \in {"ok", "refused"} :
        IF io = "ok"
        THEN /\ csvExists' = TRUE
             /\ rows' = WithRow(rows, r[s])
             /\ appended' = [appended EXCEPT ![s] = @ + 1]
             /\ pc' = [pc EXCEPT ![s] = "send"]
             /\ UNCHANGED <<r, registered, msgs, raised>>
        ELSE /\ Abort(s, "OSError", "save_rsvp")
             /\ UNCHANGED <<csvExists, rows, appended>>
    /\ UNCHANGED <<now, photos, configVars, SUBMIT_LOCK_UNTIL, resp, lastPass, dispatched,
                   netio, wrote, readOk, runs, bothChecked, pureVars>>

\* Lines 278-290: send_confirmation inside its own try, and the result shown.
SendConfirmation(s) ==
    /\ pc[s] = "send"
    /\ \E remote \in Remotes :
        LET out == send_confirmation(PROVIDER, secrets, remote)
        IN  /\ dispatched' = [dispatched EXCEPT ![s] = Append(@, r[s].mobile_e164)]
            /\ netio' = [netio EXCEPT ![s] = @ + out.net]
            /\ IF out.kind = "returned"
               THEN /\ msgs' = [msgs EXCEPT ![s] = Append(@, SuccessMsg(PROVIDER))]
                    /\ resp' = [resp EXCEPT ![s] = out.status]
                    /\ UNCHANGED raised
               ELSE /\ msgs' = [msgs EXCEPT ![s] = Append(@, SendFailedMsg(out.error))]
                    /\ resp' = [resp EXCEPT ![s] = "send_failed"]
                    /\ raised' = [raised EXCEPT ![s] = "send_confirmation"]
    /\ RunEnds(s)
    /\ UNCHANGED <<now, storeVars, configVars, SUBMIT_LOCK_UNTIL, lastPass, appended, wrote,
                   readOk, runs, bothChecked, pureVars>>

Step(s) ==
    \/ Submit(s)
    \/ AlreadyRegistered(s)
    \/ EnsureCsvExists(s)
    \/ EnsureCsvCreate(s)
    \/ SaveRow(s)
    \/ SendConfirmation(s)

\* Sessions run their scripts in threads of their own: the steps interleave.
Next == \E s \in Sessions : Step(s)

Spec == Init /\ [][Next]_vars

\* Submissions handled one after another: a run starts only when no other
\* session's run is under way.
Alone(s) == \A t \in Sessions \ {s} : pc[t] = "idle"

SeqSubmit(s) == Alone(s) /\ Submit(s)

SeqNext ==
    \E s \in Sessions :
        \/ SeqSubmit(s)
        \/ AlreadyRegistered(s)
        \/ EnsureCsvExists(s)
        \/ EnsureCsvCreate(s)
        \/ SaveRow(s)
        \/ SendConfirmation(s)

SeqSpec == Init /\ [][SeqNext]_vars

\* ------------------------------------------------------------------ calc_age
\* The dates calc_age is applied to: first, middle and last days of some
\* months of a leap year, a year before one, a century leap year and 1990.
AgeYears == {1990, 2000, 2023, 2024}
AgeMonths == {1, 2, 3, 4, 5, 12}
AgeDays == {1, 15, 28, 29, 30, 31}
AgeDates ==
    {d \in AgeYears \X AgeMonths \X AgeDays : d[3] <= DaysIn(d[1], d[2])}

FixedPipeline ==
    /\ PipelineInit
    /\ PROVIDER = "none"
    /\ secrets = [n \in SecretNames |-> FALSE]

AgeInit ==
    /\ FixedPipeline
    /\ ageIn \in AgeDates \X AgeDates
    /\ ageOut = NotComputed
    /\ sendIn = NoInput /\ sendOut = Pending

\* calc_age(dob, today) is called.
CalcAge ==
    /\ ageOut = NotComputed
    /\ ageOut' = <<calc_age(ageIn[1], ageIn[2])>>
    /\ UNCHANGED <<now, storeVars, configVars, sessVars, histVars, ageIn, sendIn, sendOut>>

AgeSpec == AgeInit /\ [][CalcAge]_vars

\* ------------------------------------------------------------------ send_confirmation
SendInputs == [provider : Providers, secrets : AllSecrets, remote : Remotes]

SendInit ==
    /\ FixedPipeline
    /\ sendIn \in SendInputs
    /\ sendOut = Pending
    /\ ageIn = NoInput /\ ageOut = NotComputed

\* send_confirmation(provider, ...) is called under the drawn secrets.
CallSend ==
    /\ sendOut = Pending
    /\ sendOut' = send_confirmation(sendIn.provider, sendIn.secrets, sendIn.remote)
    /\ UNCHANGED <<now, storeVars, configVars, sessVars, histVars, ageIn, ageOut, sendIn>>

SendSpec == SendInit /\ [][CallSend]_vars

\* ------------------------------------------------------------------ properties
Range(seq) == {seq[i] : i \in 1..Len(seq)}
Last(seq) == seq[Len(seq)]
RowsOf(phone) == {i \in 1..Len(rows) : rows[i].mobile_e164 = phone}
IsPrefix(a, b) == Len(a) <= Len(b) /\ SubSeq(b, 1, Len(a)) = a
SuccessShown(s) == \E m \in Range(msgs[s]) : m.level = "success"
\* The session's run takes the step from place a to place b.
Moves(s, a, b) == pc[s] = a /\ pc'[s] = b
\* The session makes a submit attempt.
Attempts(s) == runs'[s] = runs[s] + 1

\* What holds of a run that is about to call send_confirmation (line 279).
C1_AtDispatch ==
    \A s \in Sessions :
        (pc[s] = "send" /\ readOk[s]) =>
            \/ appended[s] = 0 /\ RowsOf(r[s].mobile_e164) # {}
            \/ /\ appended[s] = 1
               /\ RowsOf(r[s].mobile_e164) = {Len(rows)}
               /\ Last(rows) = r[s]

\* The branch taken at lines 273-276 and the phone send_confirmation is called for.
C1_Steps ==
    \A s \in Sessions :
        /\ (pc[s] = "check" /\ pc'[s] # "check" /\ readOk'[s]
                /\ RowsOf(r[s].mobile_e164) # {})
              => (pc'[s] = "send" /\ rows' = rows /\ csvExists' = csvExists)
        /\ (pc[s] = "check" /\ pc'[s] # "check" /\ RowsOf(r[s].mobile_e164) = {})
              => pc'[s] = "exists"
        /\ Moves(s, "send", "idle") => dispatched'[s] = <<r[s].mobile_e164>>

\* C1: for submissions handled one after another, whenever a run is about to
\* call send_confirmation after a readable duplicate check, either it has
\* appended nothing and the phone already has a row, or it has appended
\* exactly one row, the last one, and that is the phone's only row; a
\* readable check that finds the phone goes straight to send_confirmation
\* with the store untouched; and send_confirmation is called for the run's phone.
C1_DuplicateNotAppended == [](C1_AtDispatch) /\ [][C1_Steps]_vars

C1_Witness ==
    \E s \in Sessions :
        /\ dispatched[s] # <<>>
        /\ appended[s] = 0
        /\ readOk[s]
        /\ RowsOf(dispatched[s][1]) # {}

\* C2: a submission that ends with a validation failure or an invalid phone
\* has written no photo file and appended no row.
C2_NoWriteOnInvalid ==
    \A s \in Sessions :
        raised[s] \in {"validation", "normalize_phone"} =>
            wrote[s] = 0 /\ appended[s] = 0

\* C3: a submission in which save_photo or save_rsvp failed has appended no
\* row and never called send_confirmation, has ended, and shows the
\* "Failed" error and no "saved" message.
C3_StorageFailureAborts ==
    \A s \in Sessions :
        raised[s] \in {"save_photo", "save_rsvp"} =>
            /\ appended[s] = 0
            /\ dispatched[s] = <<>>
            /\ netio[s] = 0
            /\ pc[s] = "idle"
            /\ msgs[s] # <<>>
            /\ Last(msgs[s]).level = "error"
            /\ Last(msgs[s]).text = "Failed"
            /\ \A m \in Range(msgs[s]) : m.text \notin {SavedMsg.text, SavedSentMsg.text}

C3_Witness ==
    \E s \in Sessions : raised[s] = "save_rsvp" /\ rows # <<>>

\* What the user sees after send_confirmation raised (lines 282-284).
C4_Outcome ==
    \A s \in Sessions :
        raised[s] = "send_confirmation" =>
            /\ msgs[s] # <<>>
            /\ Last(msgs[s]).level = "warning"
            /\ Last(msgs[s]).text = "RSVP saved, but WhatsApp send failed"
            /\ Last(msgs[s]).detail # ""
            /\ resp[s] = "send_failed"
            /\ \A m \in Range(msgs[s]) : m.text # "Failed"

\* The step in which send_confirmation raises leaves the store alone.
C4_Step ==
    \A s \in Sessions :
        (Moves(s, "send", "idle") /\ raised'[s] = "send_confirmation") =>
            /\ rows' = rows
            /\ csvExists' = csvExists
            /\ appended'[s] = appended[s]

\* C4: the step in which send_confirmation raises leaves the CSV as it is; the
\* run then shows the "saved, but send failed" warning with the error's text,
\* resp has status "send_failed", and the outer "Failed" error is not shown.
C4_DispatchFailureKeepsRow == [](C4_Outcome) /\ [][C4_Step]_vars

C4_Witness ==
    \E s \in Sessions :
        /\ raised[s] = "send_confirmation"
        /\ appended[s] = 1
        /\ RowsOf(dispatched[s][1]) # {}

\* One submit attempt, judged against the latest attempt that passed line 235.
C5_Attempt ==
    \A s \in Sessions :
        Attempts(s) =>
            IF lastPass[s] >= 0 /\ now' - lastPass[s] < 3
            THEN /\ msgs'[s] = <<BusyMsg>>
                 /\ pc'[s] = "idle"
                 /\ photos' = photos /\ rows' = rows /\ csvExists' = csvExists
                 /\ wrote'[s] = 0 /\ appended'[s] = 0 /\ dispatched'[s] = <<>>
                 /\ raised'[s] = "none"
                 /\ SUBMIT_LOCK_UNTIL'[s] = SUBMIT_LOCK_UNTIL[s]
            ELSE /\ BusyMsg \notin Range(msgs'[s])
                 /\ SUBMIT_LOCK_UNTIL'[s] = now' + 3

\* C5: an attempt less than 3 seconds after the session's latest attempt that
\* passed the debounce check shows "Processing..." whatever the form holds,
\* ends at once, and writes no photo, appends no row, dispatches nothing and
\* leaves the lock; any other attempt is not rejected as busy and arms the
\* lock to its own time + 3.
C5_Debounce == [][C5_Attempt]_vars

C5_Witness ==
    \E s \in Sessions :
        /\ msgs[s] = <<BusyMsg>>
        /\ runs[s] = 2
        /\ now = lastPass[s] + 2

\* The credentials each sender requires (lines 111, 141).
CloudRequired == {"WHATSAPP_PHONE_NUMBER_ID", "WHATSAPP_ACCESS_TOKEN", "WHATSAPP_TEMPLATE_NAME"}
TwilioRequired == {"TWILIO_ACCOUNT_SID", "TWILIO_AUTH_TOKEN", "TWILIO_WHATSAPP_FROM"}
RequiredOf(provider) ==
    IF provider = "cloud_api" THEN CloudRequired
    ELSE IF provider = "twilio" THEN TwilioRequired
    ELSE {}
\* C6: send_confirmation makes a network call only for cloud_api or twilio with
\* all of that provider's required credentials set; with "none" it returns
\* "skipped" without network I/O; with a credential missing it raises the
\* provider's "secrets missing" error without network I/O.
C6_NetworkOnlyWhenConfigured ==
    sendOut # Pending =>
        LET provider == sendIn.provider
            complete == \A n \in RequiredOf(provider) : sendIn.secrets[n]
        IN  /\ sendOut.net > 0 => (provider \in {"cloud_api", "twilio"} /\ complete)
            /\ provider = "none" =>
                   (sendOut.kind = "returned" /\ sendOut.status = "skipped" /\ sendOut.net = 0)
            /\ (provider \in {"cloud_api", "twilio"} /\ ~complete) =>
                   /\ sendOut.kind = "raised"
                   /\ sendOut.net = 0
                   /\ sendOut.error =
                          (IF provider = "cloud_api" THEN "Cloud API secrets missing."
                           ELSE "Twilio secrets missing.")

C6_Witness ==
    /\ sendOut # Pending
    /\ sendIn.provider = "cloud_api"
    /\ sendIn.secrets["WHATSAPP_PHONE_NUMBER_ID"]
    /\ sendIn.secrets["WHATSAPP_ACCESS_TOKEN"]
    /\ ~sendIn.secrets["WHATSAPP_TEMPLATE_NAME"]
    /\ sendOut.kind = "raised"

\* Whole years from dob to today, counted as anniversaries on or before today.
DateLE(a, b) ==
    \/ a[1] < b[1]
    \/ a[1] = b[1] /\ a[2] < b[2]
    \/ a[1] = b[1] /\ a[2] = b[2] /\ a[3] <= b[3]
WholeYears(dob, today) ==
    Cardinality({k \in 1..200 : DateLE(<<dob[1] + k, dob[2], dob[3]>>, today)})
\* C7: calc_age(dob, today) is the number of birthdays from dob's first one on
\* that fall on or before today (a 29 February birthday falling between
\* 28 February and 1 March of a common year), so 0 for a dob after today;
\* dob 1990-05-01 gives 34 on 2024-05-01 and 33 on 2024-04-30.
C7_WholeYears ==
    ageOut # NotComputed =>
        /\ ageOut[1] = WholeYears(ageIn[1], ageIn[2])
        /\ ageOut[1] >= 0
        /\ (ageIn = <<(<<1990, 5, 1>>), (<<2024, 5, 1>>)>>) => ageOut[1] = 34
        /\ (ageIn = <<(<<1990, 5, 1>>), (<<2024, 4, 30>>)>>) => ageOut[1] = 33

C7_Witness ==
    /\ ageIn = <<(<<1990, 5, 1>>), (<<2024, 5, 1>>)>>
    /\ ageOut = <<34>>

\* C8: "saved, confirmation sent" is shown only after send_confirmation was
\* called with a provider other than "none" and returned; with provider "none"
\* a run that has called send_confirmation shows plain "saved"; and a run that
\* ended in a failure shows a message and no success message.
C8_SavedVersusNotified ==
    \A s \in Sessions :
        /\ SavedSentMsg \in Range(msgs[s]) =>
               /\ dispatched[s] # <<>>
               /\ PROVIDER # "none"
               /\ raised[s] = "none"
               /\ resp[s] \notin {"", "send_failed"}
        /\ (PROVIDER = "none" /\ dispatched[s] # <<>>) =>
               /\ Last(msgs[s]) = SavedMsg
               /\ SavedSentMsg \notin Range(msgs[s])
        /\ raised[s] # "none" =>
               /\ pc[s] = "idle"
               /\ msgs[s] # <<>>
               /\ ~SuccessShown(s)

C8_Witness ==
    \E s \in Sessions :
        /\ PROVIDER = "none"
        /\ appended[s] = 1
        /\ dispatched[s] # <<>>
        /\ Last(msgs[s]) = SavedMsg

\* One step of the store.
C9_Step ==
    /\ IsPrefix(rows, rows')
    /\ Len(rows') <= Len(rows) + 1
    /\ \A s \in Sessions : Moves(s, "create", "append") => ~csvExists

\* C9: every step keeps the rows already in the CSV, unchanged and in order,
\* and adds at most one row at the end; and ensure_csv writes the header only
\* when the file is absent.
C9_AppendOnly == [][C9_Step]_vars

\* C10: when two runs for the same phone have both executed already_registered
\* before either executed save_rsvp, and both have appended, the CSV holds two
\* rows with the same mobile_e164.
C10_BothAppendTwoRows ==
    (bothChecked /\ \A s \in Sessions : appended[s] = 1) =>
        \E i, j \in 1..Len(rows) : i # j /\ rows[i].mobile_e164 = rows[j].mobile_e164

====
